---- MODULE Spec2Model ----
(***************************************************************************)
(* Model of svg_converter.py: the conversion of an SVG drawing into the    *)
(* layer list of a Battlefield emblem.                                     *)
(*                                                                         *)
(*   svg2paths -> simplify_svg -> projection loop -> scale_to_fit -> JSON  *)
(*                                                                         *)
(* Numbers the code holds as floats are exact rationals <<n, d>> here      *)
(* (d > 0, lowest terms), so that 1.6 is 8/5 and a curve sampled at        *)
(* t = i/20 has an exact value; the rounding of IEEE doubles is not        *)
(* modelled.  Attribute dictionaries are functions from key strings to     *)
(* values; dict.get is Get.  The 'd' of a path element holds its parsed    *)
(* segments.                                                               *)
(*                                                                         *)
(* Left out: the parse of the root's width and height (lines 106-109),     *)
(* whose values are never used, the exception handler (lines 176-178),     *)
(* which no step of the modelled files raises into, the unused max_top and *)
(* max_height of scale_to_fit (lines 77-81), and generate_js_code.  Every  *)
(* path of the model's files has at least one segment.                     *)
(***************************************************************************)
EXTENDS Integers, Sequences, FiniteSets, TLC

VARIABLES
    elements,       \* the shape elements of the SVG file, as svg2paths lists them
    max_layers,     \* parameter max_layers of svg_to_battlefield
    max_dimension,  \* parameter max_dimension of svg_to_battlefield
    pc,             \* position in svg_to_battlefield
    paths,          \* local `paths` after simplify_svg
    attributes,     \* local `attributes` after simplify_svg
    emblem_data,    \* local `emblem_data`
    result          \* what svg_to_battlefield returns: None or the payload

vars == <<elements, max_layers, max_dimension, pc, paths, attributes,
          emblem_data, result>>

\* ------------------------------------------------------------ bounds
MaxShapes == 3      \* shape elements in one file
MaxLayers == 3      \* max_layers ranges over 0..MaxLayers

\* ------------------------------------------------------------ numbers
RECURSIVE GCD(_, _)
GCD(a, b) == IF b = 0 THEN a ELSE GCD(b, a % b)

Abs(n) == IF n < 0 THEN -n ELSE n

\* The rational n/d in lowest terms with a positive denominator.
Rat(n, d) ==
    LET s == IF d < 0 THEN -1 ELSE 1
        g == GCD(Abs(n), Abs(d))
    IN  <<(s * n) \div g, (s * d) \div g>>

RInt(n) == <<n, 1>>
RAdd(a, b) == Rat(a[1] * b[2] + b[1] * a[2], a[2] * b[2])
RSub(a, b) == Rat(a[1] * b[2] - b[1] * a[2], a[2] * b[2])
RMul(a, b) == Rat(a[1] * b[1], a[2] * b[2])
RDiv(a, b) == Rat(a[1] * b[2], a[2] * b[1])
RLeq(a, b) == a[1] * b[2] <= b[1] * a[2]
RLess(a, b) == a[1] * b[2] < b[1] * a[2]
RMax(a, b) == IF RLeq(b, a) THEN a ELSE b
RMin(a, b) == IF RLeq(a, b) THEN a ELSE b

\* float(s) on the decimal strings that occur in the model's files.
Float(s) ==
    CASE s = "0" -> RInt(0)
      [] s = "1" -> RInt(1)
      [] s = "2" -> RInt(2)
      [] s = "3" -> RInt(3)

\* str.lower() on the fill strings that occur in the model's files.
Lower(s) ==
    CASE s = "NONE" -> "none"
      [] s = "None" -> "none"
      [] OTHER      -> s

\* dict.get(key, default)
Get(attrib, key, default) ==
    IF key \in DOMAIN attrib THEN attrib[key] ELSE default

\* float(attrib.get(key, default)), the default being a number already
FloatGet(attrib, key, default) ==
    IF key \in DOMAIN attrib THEN Float(attrib[key]) ELSE RInt(default)

\* initial_scale_factor = 1.6
initial_scale_factor == <<8, 5>>

\* ------------------------------------------------------------ geometry
\* A point is <<x, y>> (the complex number x + yj of svgpathtools).  A
\* segment is [kind, pts]: Line(start, end), QuadraticBezier(start, control,
\* end), CubicBezier(start, control1, control2, end) or Arc(start, end).  A
\* Path is [segs |-> <<segment, ...>>]; isinstance(p, Path) is IsPath(p).
Line(a, b) == [kind |-> "Line", pts |-> <<a, b>>]
QuadraticBezier(a, c, b) == [kind |-> "QuadraticBezier", pts |-> <<a, c, b>>]
CubicBezier(a, c1, c2, b) == [kind |-> "CubicBezier", pts |-> <<a, c1, c2, b>>]
Arc(a, b) == [kind |-> "Arc", pts |-> <<a, b>>]
Path(segs) == [segs |-> segs]
IsPath(p) == "segs" \in DOMAIN p

SetMin(S) == CHOOSE m \in S : \A n \in S : m <= n
SetMax(S) == CHOOSE m \in S : \A n \in S : n <= m

\* segment.bbox() of svgpathtools: (xmin, xmax, ymin, ymax).  For a curve it
\* is the box of the control points, which is the curve's exact box when the
\* controls lie inside the box of the end points, as they do for every curve
\* of the model's files; an Arc of the model's files is a half circle over a
\* horizontal chord, drawn left to right with sweep flag 0.
SegBBox(seg) ==
    LET xs == {seg.pts[i][1] : i \in DOMAIN seg.pts}
        ys == {seg.pts[i][2] : i \in DOMAIN seg.pts}
    IN  IF seg.kind = "Arc"
        THEN <<SetMin(xs), SetMax(xs), SetMin(ys),
               SetMax(ys) + (SetMax(xs) - SetMin(xs)) \div 2>>
        ELSE <<SetMin(xs), SetMax(xs), SetMin(ys), SetMax(ys)>>

\* Path.bbox() of svgpathtools: (xmin, xmax, ymin, ymax) over the segments.
PathBBox(path) ==
    LET bbs == {SegBBox(path.segs[i]) : i \in DOMAIN path.segs}
    IN  <<SetMin({b[1] : b \in bbs}), SetMax({b[2] : b \in bbs}),
          SetMin({b[3] : b \in bbs}), SetMax({b[4] : b \in bbs})>>

\* rect2pathd + parse_path of svgpathtools, by which svg2paths turns a <rect>
\* into "M x0 y0 L x1 y1 L x2 y2 L x3 y3 z": three lines and the closing line,
\* which parse_path adds when the pen is not back at the start.
RectPath(attrib) ==
    LET x == FloatGet(attrib, "x", 0)[1]
        y == FloatGet(attrib, "y", 0)[1]
        w == FloatGet(attrib, "width", 0)[1]
        h == FloatGet(attrib, "height", 0)[1]
        p0 == <<x, y>>
        p1 == <<x + w, y>>
        p2 == <<x + w, y + h>>
        p3 == <<x, y + h>>
    IN  Path(<<Line(p0, p1), Line(p1, p2), Line(p2, p3)>>
             \o (IF p3 = p0 THEN <<>> ELSE <<Line(p3, p0)>>))

\* svg2paths(svg_filepath): every element becomes a Path, and its attribute
\* dictionary is passed through untouched.
Svg2PathsPaths(els) ==
    [i \in DOMAIN els |->
        IF els[i].tag = "rect" THEN RectPath(els[i].attrib)
                               ELSE Path(els[i].attrib.d)]
Svg2PathsAttributes(els) == [i \in DOMAIN els |-> els[i].attrib]

\* ------------------------------------------------------------ simplify_svg
\* Mutant of KeyOrder: a new key goes to the front, not to the end.
RECURSIVE KeyOrderNewestFirst(_)
KeyOrderNewestFirst(keys) ==
    IF keys = <<>> THEN <<>>
    ELSE LET n == Len(keys)
             prev == KeyOrderNewestFirst(SubSeq(keys, 1, n - 1))
         IN  IF \E i \in DOMAIN prev : prev[i] = keys[n]
             THEN prev ELSE <<keys[n]>> \o prev

\* The keys of an insertion-ordered dict filled with keys[1], keys[2], ...
RECURSIVE KeyOrder(_)
KeyOrder(keys) ==
    IF keys = <<>> THEN <<>>
    ELSE LET n == Len(keys)
             prev == KeyOrder(SubSeq(keys, 1, n - 1))
         IN  IF \E i \in DOMAIN prev : prev[i] = keys[n]
             THEN prev ELSE Append(prev, keys[n])

\* Mutant of CombinePaths: each shape's segments go in front of the ones
\* gathered so far.
RECURSIVE CombinePathsInFront(_)
CombinePathsInFront(plist) ==
    IF plist = <<>> THEN <<>>
    ELSE CombinePathsInFront(Tail(plist))
         \o (IF IsPath(Head(plist)) THEN Head(plist).segs ELSE <<Head(plist)>>)

\* lines 19-25 and 52-59: a Path's segments are appended one by one, anything
\* else is appended as it is.
RECURSIVE CombinePaths(_)
CombinePaths(plist) ==
    IF plist = <<>> THEN <<>>
    ELSE (IF IsPath(Head(plist)) THEN Head(plist).segs ELSE <<Head(plist)>>)
         \o CombinePaths(Tail(plist))

\* The sub-sequence of s at the indices i with keys[i] = k.
RECURSIVE Members(_, _, _)
Members(s, keys, k) ==
    IF s = <<>> THEN <<>>
    ELSE (IF Head(keys) = k THEN <<Head(s)>> ELSE <<>>)
         \o Members(Tail(s), Tail(keys), k)

\* line 11
StyleKey(attrib) ==
    <<Get(attrib, "fill", "#000000"), Get(attrib, "opacity", "1")>>

\* lines 9-27: the style-merge pass.
StyleMerge(ps, as) ==
    LET keys  == [i \in DOMAIN as |-> StyleKey(as[i])]
        order == KeyOrder(keys)
    IN  [paths |-> [g \in DOMAIN order |->
                       Path(CombinePaths(Members(ps, keys, order[g])))],
         attributes |-> [g \in DOMAIN order |->
                       [fill |-> order[g][1], opacity |-> order[g][2]]]]

\* lines 32-36: the size the code gives a path, from bbox() read as
\* (bbox[2] - bbox[0]) * (bbox[3] - bbox[1]).
PathSize(path) ==
    IF IsPath(path)
    THEN LET bbox == PathBBox(path)
         IN  (bbox[3] - bbox[1]) * (bbox[4] - bbox[2])
    ELSE 0

\* sorted(..., key=size, reverse=True): descending and stable, so item i
\* goes after every larger item and every equal item that came before it.
SortedDesc(sizes) ==
    LET rank(i) == Cardinality({j \in DOMAIN sizes :
                        \/ sizes[j] > sizes[i]
                        \/ sizes[j] = sizes[i] /\ j < i}) + 1
    IN  [r \in DOMAIN sizes |-> CHOOSE i \in DOMAIN sizes : rank(i) = r]

\* Mutant of Prefix: the slice is one entry too long.
PrefixOneMore(s, n) == SubSeq(s, 1, IF n + 1 < Len(s) THEN n + 1 ELSE Len(s))

\* s[:n]
Prefix(s, n) == SubSeq(s, 1, IF n < Len(s) THEN n ELSE Len(s))

\* lines 29-39: size-based truncation.
SizeTruncate(sp, M) ==
    IF Len(sp.paths) > M
    THEN LET sizes == [i \in DOMAIN sp.paths |-> PathSize(sp.paths[i])]
             perm  == Prefix(SortedDesc(sizes), M)
         IN  [paths |-> [r \in DOMAIN perm |-> sp.paths[perm[r]]],
              attributes |-> [r \in DOMAIN perm |-> sp.attributes[perm[r]]]]
    ELSE sp

\* lines 41-64: the colour-only re-merge; the opacity of a group is the mean
\* of float(opacity) over its members, kept here as the rational itself.
RECURSIVE RSum(_)
RSum(s) == IF s = <<>> THEN RInt(0) ELSE RAdd(Head(s), RSum(Tail(s)))

ColourMerge(sp, M) ==
    IF Len(sp.paths) > M
    THEN LET keys  == [i \in DOMAIN sp.attributes |->
                          Get(sp.attributes[i], "fill", "#000000")]
             order == KeyOrder(keys)
             ops   == [i \in DOMAIN sp.attributes |->
                          FloatGet(sp.attributes[i], "opacity", 1)]
             avg(k) == LET mine == Members(ops, keys, k)
                       IN  RDiv(RSum(mine), RInt(Len(mine)))
         IN  [paths |-> [g \in DOMAIN order |->
                           Path(CombinePaths(Members(sp.paths, keys, order[g])))],
              attributes |-> [g \in DOMAIN order |->
                           [fill |-> order[g], opacity |-> avg(order[g])]]]
    ELSE sp

\* lines 66-68: the hard truncation.
HardTruncate(sp, M) ==
    IF Len(sp.paths) > M
    THEN [paths |-> Prefix(sp.paths, M), attributes |-> Prefix(sp.attributes, M)]
    ELSE sp

\* simplify_svg(paths, attributes, max_layers)
simplify_svg(ps, as, M) ==
    HardTruncate(ColourMerge(SizeTruncate(StyleMerge(ps, as), M), M), M)

\* ------------------------------------------------------------ projection
\* lines 130-134, 142-146, 155-159: one layer record.
Layer(opacity, top, left, height, width, asset, fill) ==
    [opacity |-> opacity, angle |-> 0, flipX |-> FALSE, flipY |-> FALSE,
     top |-> top, left |-> left, height |-> height, width |-> width,
     asset |-> asset, selectable |-> FALSE, fill |-> fill]

Scaled(n) == RMul(RInt(n), initial_scale_factor)

\* num_points = 20
num_points == 20

\* segment.point(i/num_points) in one coordinate c (1 = real, 2 = imag) of
\* a Bezier curve, by its Bernstein form: CurveNum / CurveDen.
CurveNum(seg, c, i) ==
    LET j == num_points - i
        p == seg.pts
    IN  IF seg.kind = "QuadraticBezier"
        THEN j * j * p[1][c] + 2 * j * i * p[2][c] + i * i * p[3][c]
        ELSE j * j * j * p[1][c] + 3 * j * j * i * p[2][c]
                + 3 * j * i * i * p[3][c] + i * i * i * p[4][c]
CurveDen(seg) ==
    IF seg.kind = "QuadraticBezier"
    THEN num_points * num_points
    ELSE num_points * num_points * num_points

\* min and max of one coordinate over points = [segment.point(i/num_points)
\* for i in range(num_points + 1)]
RMinOver(seg, c) ==
    Rat(SetMin({CurveNum(seg, c, i) : i \in 0..num_points}), CurveDen(seg))
RMaxOver(seg, c) ==
    Rat(SetMax({CurveNum(seg, c, i) : i \in 0..num_points}), CurveDen(seg))

Min2(a, b) == IF a < b THEN a ELSE b

\* lines 123-134: the layer of a Line.
LineLayer(seg, opacity, fill) ==
    LET start == seg.pts[1]
        end   == seg.pts[2]
    IN  Layer(opacity,
              Scaled(Min2(start[2], end[2])), Scaled(Min2(start[1], end[1])),
              Scaled(Abs(end[2] - start[2])), Scaled(Abs(end[1] - start[1])),
              "Stroke", fill)

\* lines 135-146: the layer of a cubic or quadratic curve.
CurveLayer(seg, opacity, fill) ==
    LET min_x == RMul(RMinOver(seg, 1), initial_scale_factor)
        min_y == RMul(RMinOver(seg, 2), initial_scale_factor)
        max_x == RMul(RMaxOver(seg, 1), initial_scale_factor)
        max_y == RMul(RMaxOver(seg, 2), initial_scale_factor)
    IN  Layer(opacity, min_y, min_x, RSub(max_y, min_y), RSub(max_x, min_x),
              "Stroke", fill)

\* lines 150-159: the layer of an entry that is no Path and has no 'd'.
SquareLayer(attrib, opacity, fill) ==
    Layer(opacity,
          RMul(FloatGet(attrib, "y", 0), initial_scale_factor),
          RMul(FloatGet(attrib, "x", 0), initial_scale_factor),
          RMul(FloatGet(attrib, "height", 0), initial_scale_factor),
          RMul(FloatGet(attrib, "width", 0), initial_scale_factor),
          "Square", fill)

\* lines 116-118
FillColor(attrib) ==
    LET fill_color == Get(attrib, "fill", "#000000")
    IN  IF Lower(fill_color) = "none" THEN "#000000" ELSE fill_color

\* Mutant of SegmentStep: a segment of another kind is skipped, and the
\* conversion goes on.
SegmentStepSkip(seg, opacity, fill) ==
    IF seg.kind = "Line"
    THEN [ok |-> TRUE, layers |-> <<LineLayer(seg, opacity, fill)>>]
    ELSE IF seg.kind \in {"CubicBezier", "QuadraticBezier"}
    THEN [ok |-> TRUE, layers |-> <<CurveLayer(seg, opacity, fill)>>]
    ELSE [ok |-> TRUE, layers |-> <<>>]

\* lines 123-149: one turn of the loop over a path's segments: the layer of
\* the segment, or the return of None (ok = FALSE) for any other kind.
SegmentStep(seg, opacity, fill) ==
    IF seg.kind = "Line"
    THEN [ok |-> TRUE, layers |-> <<LineLayer(seg, opacity, fill)>>]
    ELSE IF seg.kind \in {"CubicBezier", "QuadraticBezier"}
    THEN [ok |-> TRUE, layers |-> <<CurveLayer(seg, opacity, fill)>>]
    ELSE [ok |-> FALSE, layers |-> <<>>]

\* lines 121-162: one turn of the loop over the simplified entries: the
\* layers of a Path's segments in order, the Square layer of an entry that
\* is no Path and has no 'd', and the return of None otherwise.
RECURSIVE SegmentLayers(_, _, _)
SegmentLayers(segs, opacity, fill) ==
    IF segs = <<>> THEN [ok |-> TRUE, layers |-> <<>>]
    ELSE LET step == SegmentStep(Head(segs), opacity, fill)
             rest == SegmentLayers(Tail(segs), opacity, fill)
         IN  IF step.ok /\ rest.ok
             THEN [ok |-> TRUE, layers |-> step.layers \o rest.layers]
             ELSE [ok |-> FALSE, layers |-> <<>>]

EntryLayers(path, attrib) ==
    LET fill    == FillColor(attrib)
        opacity == FloatGet(attrib, "opacity", 1)
    IN  IF IsPath(path)
        THEN SegmentLayers(path.segs, opacity, fill)
        ELSE IF "d" \notin DOMAIN attrib
        THEN [ok |-> TRUE, layers |-> <<SquareLayer(attrib, opacity, fill)>>]
        ELSE [ok |-> FALSE, layers |-> <<>>]

\* lines 115-162: the loop over the simplified entries.  The answer is
\* [ok, data]: ok is FALSE when the loop returned None.
RECURSIVE Project(_, _)
Project(ps, as) ==
    IF ps = <<>> THEN [ok |-> TRUE, data |-> <<>>]
    ELSE LET mine == EntryLayers(Head(ps), Head(as))
             rest == Project(Tail(ps), Tail(as))
         IN  IF mine.ok /\ rest.ok
             THEN [ok |-> TRUE, data |-> mine.layers \o rest.data]
             ELSE [ok |-> FALSE, data |-> <<>>]

\* ------------------------------------------------------------ scale_to_fit
\* lines 84-86
RECURSIVE OverallHeight(_)
OverallHeight(data) ==
    IF data = <<>> THEN RInt(0)
    ELSE LET item == data[Len(data)]
         IN  RMax(OverallHeight(SubSeq(data, 1, Len(data) - 1)),
                  RAdd(item.top, item.height))

\* lines 89-91
ScaleFactor(data, D) ==
    IF RLess(RInt(D), OverallHeight(data))
    THEN RDiv(RInt(D), OverallHeight(data))
    ELSE RInt(1)

\* Mutant of scale_to_fit: top is left out of the rescaling.
scale_to_fit_KeepTop(data, D) ==
    LET scale_factor == ScaleFactor(data, D)
    IN  IF scale_factor # RInt(1)
        THEN [i \in DOMAIN data |->
                [data[i] EXCEPT !.left = RMul(@, scale_factor),
                                !.height = RMul(@, scale_factor),
                                !.width = RMul(@, scale_factor)]]
        ELSE data

\* scale_to_fit(emblem_data, max_dimension), lines 73-100
scale_to_fit(data, D) ==
    LET scale_factor == ScaleFactor(data, D)
    IN  IF scale_factor # RInt(1)
        THEN [i \in DOMAIN data |->
                [data[i] EXCEPT !.top = RMul(@, scale_factor),
                                !.left = RMul(@, scale_factor),
                                !.height = RMul(@, scale_factor),
                                !.width = RMul(@, scale_factor)]]
        ELSE data

\* ------------------------------------------------------------ results
Pending == [kind |-> "pending"]
None == [kind |-> "None"]
\* lines 170-174: the JSON-RPC envelope around the layer list.
Payload(data) ==
    [kind |-> "json", jsonrpc |-> "2.0", method |-> "Emblems.newPrivateEmblem",
     params |-> [data |-> data],
     id |-> "00000000-0000-0000-0000-000000000000"]

\* ------------------------------------------------------------ the files
\* Shapes that differ in geometry: a line, a rectangle, a path that ends in
\* an elliptical arc and a path of two curves, in two colours.
GeomFills == {"#FF0000", "#00FF00"}
GeomData ==
    {<<Line(<<0, 0>>, <<2, 1>>)>>,
     <<Line(<<0, 0>>, <<1, 0>>), Arc(<<0, 1>>, <<2, 1>>)>>,
     <<QuadraticBezier(<<0, 0>>, <<2, 0>>, <<2, 2>>),
       CubicBezier(<<0, 0>>, <<0, 1>>, <<2, 1>>, <<2, 2>>)>>}
GeomShapes ==
    {[tag |-> "path", attrib |-> [d |-> d, fill |-> f]] :
        d \in GeomData, f \in GeomFills}
    \cup {[tag |-> "rect",
           attrib |-> [x |-> "0", y |-> "1", width |-> "2", height |-> "1",
                       fill |-> f]] : f \in GeomFills}
Dimensions == {0, 1, 4}

\* Shapes that differ in style: the fill and the opacity are each absent or
\* one of a few strings.  The i-th shape of a file is a line of its own.
StyleFills == {"none", "NONE", "#000000"}
StyleOpacities == {"1", "0"}
StyleDicts ==
    {f @@ o : f \in {<<>>} \cup {[fill |-> v] : v \in StyleFills},
              o \in {<<>>} \cup {[opacity |-> v] : v \in StyleOpacities}}
StyleLine(i, n) == Line(<<0, i - 1>>, <<n + 1 - i, i>>)
StyleFile(dicts) ==
    [i \in DOMAIN dicts |->
        [tag |-> "path",
         attrib |-> [d |-> <<StyleLine(i, Len(dicts))>>] @@ dicts[i]]]

\* max_dimension=317: the default of svg_to_battlefield
DefaultMaxDimension == 317

\* ------------------------------------------------------------ the machine
Init ==
    /\ \E k \in 0..MaxShapes :
          \/ /\ elements \in [1..k -> GeomShapes]
             /\ max_dimension \in Dimensions
          \/ /\ \E dicts \in [1..k -> StyleDicts] : elements = StyleFile(dicts)
             /\ max_dimension = DefaultMaxDimension
    /\ max_layers \in 0..MaxLayers
    /\ pc = "start"
    /\ paths = <<>>
    /\ attributes = <<>>
    /\ emblem_data = <<>>
    /\ result = Pending

\* lines 111-113
Simplify ==
    /\ pc = "start"
    /\ LET sp == simplify_svg(Svg2PathsPaths(elements),
                              Svg2PathsAttributes(elements), max_layers)
       IN  /\ paths' = sp.paths
           /\ attributes' = sp.attributes
    /\ pc' = "simplified"
    /\ UNCHANGED <<elements, max_layers, max_dimension, emblem_data, result>>

\* lines 115-162: the loop either runs to its end or returns None (lines
\* 149 and 162)
ProjectLayers ==
    /\ pc = "simplified"
    /\ LET r == Project(paths, attributes)
       IN  IF r.ok
           THEN /\ emblem_data' = r.data
                /\ pc' = "projected"
                /\ UNCHANGED result
           ELSE /\ result' = None
                /\ pc' = "done"
                /\ UNCHANGED emblem_data
    /\ UNCHANGED <<elements, max_layers, max_dimension, paths, attributes>>

\* lines 165-174
FitAndEmit ==
    /\ pc = "projected"
    /\ emblem_data' = scale_to_fit(emblem_data, max_dimension)
    /\ result' = Payload(emblem_data')
    /\ pc' = "done"
    /\ UNCHANGED <<elements, max_layers, max_dimension, paths, attributes>>

Next == Simplify \/ ProjectLayers \/ FitAndEmit

Spec == Init /\ [][Next]_vars

\* ------------------------------------------------------------ properties
\* What svg2paths hands to simplify_svg.
InputPaths == Svg2PathsPaths(elements)
InputAttributes == Svg2PathsAttributes(elements)

\* The style key of the i-th input shape, read off its attributes.
InKey(i) ==
    LET a == InputAttributes[i]
    IN  <<IF "fill" \in DOMAIN a THEN a.fill ELSE "#000000",
          IF "opacity" \in DOMAIN a THEN a.opacity ELSE "1">>
InKeys == {InKey(i) : i \in DOMAIN elements}
FirstIndex(k) == SetMin({i \in DOMAIN elements : InKey(i) = k})
OutKey(g) == <<attributes[g].fill, attributes[g].opacity>>

\* The segments of the first n input shapes that carry key k, in input order.
RECURSIVE SegsOfKey(_, _)
SegsOfKey(k, n) ==
    IF n = 0 THEN <<>>
    ELSE SegsOfKey(k, n - 1)
            \o (IF InKey(n) = k THEN InputPaths[n].segs ELSE <<>>)

Simplified == pc \in {"simplified", "projected", "done"}
Truncated == Cardinality(InKeys) > max_layers

HasUnsupported(path) ==
    \E i \in DOMAIN path.segs :
        path.segs[i].kind \notin {"Line", "CubicBezier", "QuadraticBezier"}

\* The area of a path's bounding box: width times height of its extent.
BBoxArea(path) ==
    LET xs == UNION {{path.segs[i].pts[j][1] : j \in DOMAIN path.segs[i].pts} :
                        i \in DOMAIN path.segs}
        b  == PathBBox(path)
    IN  (SetMax(xs) - SetMin(xs)) * (b[4] - b[3])

\* C1: the layer list of an emitted payload is no longer than max_layers.
C1_PayloadWithinMaxLayers ==
    result.kind = "json" => Len(result.params.data) <= max_layers

\* C2 as stated: an unsupported segment anywhere in the input makes the
\* conversion return None.
C2_UnsupportedAnywhereAborts ==
    (pc = "done" /\ \E i \in DOMAIN elements : HasUnsupported(InputPaths[i]))
        => result = None

\* C2 as amended: an unsupported segment in an entry that simplify_svg kept
\* makes the conversion return None, whatever entries stand before it.
C2_UnsupportedRetainedAborts ==
    (pc = "done" /\ \E g \in DOMAIN paths : HasUnsupported(paths[g]))
        => result = None

C2_Witness ==
    /\ pc = "done"
    /\ result = None
    /\ Len(paths) >= 2
    /\ ~HasUnsupported(paths[1])
    /\ HasUnsupported(paths[2])

\* C3: every rectangle gives exactly one Square layer with top = y*S,
\* left = x*S, width = w*S, height = h*S, gives no Stroke layer, and never
\* aborts the conversion.
RectIndices == {i \in DOMAIN elements : elements[i].tag = "rect"}
PathIndices == DOMAIN elements \ RectIndices
RECURSIVE SumOver(_, _)
SumOver(f, S) ==
    IF S = {} THEN 0
    ELSE LET x == CHOOSE y \in S : TRUE IN f[x] + SumOver(f, S \ {x})
C3_RectangleGivesOneSquare ==
    /\ (pc = "projected" /\ ~Truncated) =>
          /\ Cardinality({k \in DOMAIN emblem_data :
                            emblem_data[k].asset = "Square"})
                = Cardinality(RectIndices)
          /\ Cardinality({k \in DOMAIN emblem_data :
                            emblem_data[k].asset = "Stroke"})
                = SumOver([i \in PathIndices |-> Len(InputPaths[i].segs)],
                          PathIndices)
          /\ \A i \in RectIndices : \E k \in DOMAIN emblem_data :
                LET a == elements[i].attrib
                    l == emblem_data[k]
                IN  /\ l.asset = "Square"
                    /\ l.top = RMul(Float(a.y), initial_scale_factor)
                    /\ l.left = RMul(Float(a.x), initial_scale_factor)
                    /\ l.width = RMul(Float(a.width), initial_scale_factor)
                    /\ l.height = RMul(Float(a.height), initial_scale_factor)
    /\ (pc = "done" /\ result = None) =>
          \E i \in PathIndices : HasUnsupported(InputPaths[i])

\* C4: a fill of `none`, in any case, counts as #000000 in the style key of
\* simplify_svg: such a shape shares the group of a #000000 shape of equal
\* opacity, and no entry of the output has the fill `none`.
NormalKey(i) ==
    <<IF Lower(InKey(i)[1]) = "none" THEN "#000000" ELSE InKey(i)[1],
      InKey(i)[2]>>
NormalKeys == {NormalKey(i) : i \in DOMAIN elements}
C4_NoneGroupedAsBlack ==
    pc = "simplified" =>
        /\ \A g \in DOMAIN attributes : Lower(attributes[g].fill) # "none"
        /\ Cardinality(NormalKeys) <= max_layers
                => Len(paths) = Cardinality(NormalKeys)

\* C5 as stated: a sequence of at most max_layers entries with one entry
\* per style key comes back from simplify_svg unchanged.
C5_SimplifiedInputUnchanged ==
    (/\ pc = "simplified"
     /\ Len(elements) <= max_layers
     /\ Cardinality(InKeys) = Len(elements))
        => paths = InputPaths /\ attributes = InputAttributes

\* C5 as amended: what simplify_svg returned (at most max_layers entries,
\* one Path per style key, the attributes exactly fill and opacity) comes
\* back from simplify_svg unchanged.
C5_SimplifyIdempotent ==
    pc = "simplified" =>
        simplify_svg(paths, attributes, max_layers)
            = [paths |-> paths, attributes |-> attributes]

C5_Witness ==
    /\ pc = "simplified"
    /\ Len(paths) >= 2
    /\ \E g \in DOMAIN paths : Len(paths[g].segs) >= 2

\* C6: scale_to_fit leaves every layer as it is when the overall height is
\* at most max_dimension, and makes the overall height equal max_dimension
\* when it was larger.
PreFit == Project(paths, attributes).data
C7_FitsBothAxes ==
    result.kind = "json" =>
        \A k \in DOMAIN emblem_data :
            /\ RLeq(RAdd(emblem_data[k].top, emblem_data[k].height),
                    RInt(max_dimension))
            /\ RLeq(RAdd(emblem_data[k].left, emblem_data[k].width),
                    RInt(max_dimension))

\* C8: simplify_svg returns at most max_layers entries, and as many
\* attribute dictionaries as paths.
C8_SimplifyWithinMaxLayers ==
    Simplified => Len(paths) <= max_layers /\ Len(paths) = Len(attributes)

C8_Witness ==
    /\ pc = "simplified"
    /\ Truncated
    /\ max_layers >= 2
    /\ Len(paths) = max_layers

\* C9: the style-merge pass gives one entry per (fill, opacity) key of the
\* input, in the order of the keys' first occurrences, and the path of an
\* entry is the segments of the input shapes of its key, in input order.
C9_StyleMerge ==
    (pc = "simplified" /\ ~Truncated) =>
        /\ Len(paths) = Cardinality(InKeys)
        /\ Len(attributes) = Cardinality(InKeys)
        /\ \A g \in DOMAIN attributes :
              /\ DOMAIN attributes[g] = {"fill", "opacity"}
              /\ OutKey(g) \in InKeys
              /\ paths[g] = Path(SegsOfKey(OutKey(g), Len(elements)))
        /\ \A g, h \in DOMAIN attributes :
              g < h => FirstIndex(OutKey(g)) < FirstIndex(OutKey(h))

C9_Witness ==
    /\ pc = "simplified"
    /\ ~Truncated
    /\ Len(elements) = 3
    /\ Len(paths) = 2
    /\ InKey(1) = InKey(3)
    /\ Len(paths[1].segs) >= 2

\* C10: when the style-merge pass gives more than max_layers groups, the
\* output has exactly max_layers entries in descending order of
\* bounding-box area, and no dropped group has a larger bounding-box area
\* than a kept one.
Merged == StyleMerge(InputPaths, InputAttributes)
C10_LargestAreasKept ==
    (pc = "simplified" /\ Truncated) =>
        /\ Len(paths) = max_layers
        /\ \A g, h \in DOMAIN paths :
              g < h => BBoxArea(paths[g]) >= BBoxArea(paths[h])
        /\ \A m \in DOMAIN Merged.paths :
              (\A g \in DOMAIN paths : Merged.attributes[m] # attributes[g])
                => \A g \in DOMAIN paths :
                      BBoxArea(Merged.paths[m]) <= BBoxArea(paths[g])

====
